---- MODULE Spec2Model ----
(***************************************************************************)
(* Model of src/js/worker/system.js (jor1k worker): the run / idle / stop  *)
(* state machine of System, its deferred-wake timer, the 'execute'         *)
(* re-invocation messages, the telemetry counter and the boot image        *)
(* loader.  Every handler of the worker runs to completion on one thread,  *)
(* so every handler is one action.                                         *)
(*                                                                         *)
(* Wall-clock time is kept relative to the present: idleElapsed is         *)
(* utils.GetMilliseconds() - this.idletime.  The host runs a pending       *)
(* timeout at some later turn of its event loop.                           *)
(***************************************************************************)
EXTENDS Integers, Sequences, FiniteSets

\* ---------------------------------------------------------------- bounds
MaxExec == 2
MaxTimers == 3
MaxIps == 3
MaxElapsed == 3
MaxLoads == 1
MemLen == 40

\* ------------------------------------------------------ program constants
SYSTEM_RUN == 1
SYSTEM_STOP == 2
SYSTEM_HALT == 3
ticksperms == 20000
\* this.status before the master thread has sent Init
Undefined == 0
\* "no value": no ProgressTime call, no GetIPS reply, no handle
None == 0 - 1

\* ------------------------------------------------- values of collaborators
\* cpu.GetTimeToNextInterrupt(): -1 (no pending timer) or a cycle count
Deltas == {0 - 1, 30000, 60000}
\* timer.instructionsperloop, as the last timer.Update left it
Budgets == {1, 2}
\* timer.correction, as the last timer.Update left it, a ratio <<num, den>>
Corrections == {<<1, 1>>, <<2, 1>>}
\* interrupt lines and core indices used by the devices
Lines == {2}
Cores == {0}

Min(a, b) == IF a < b THEN a ELSE b

VARIABLES
    inited,            \* Init has run: this.cpu, this.ram, this.devices exist
    status,            \* this.status
    ips,               \* this.ips
    idleElapsed,       \* utils.GetMilliseconds() - this.idletime, saturated
    idlemaxwait,       \* this.idlemaxwait
    idletimeouthandle, \* this.idletimeouthandle: id of a timeout, or None
    timers,            \* host timer queue: pending timeouts [id, delta]
    execq,             \* 'execute' messages sent and not yet delivered
    loading,           \* utils.LoadBinaryResource requests in flight
    mem,               \* this.ram.uint8mem (its first MemLen bytes)
    memorysize,        \* this.memorysize
    littleendian,      \* this.cpu.littleendian
    sumConsumed,       \* sum of totalsteps since this.ips was last zeroed (history)
    afterReset         \* Reset has run and no LoadAndStart since (history)

vars == <<inited, status, ips, idleElapsed, idlemaxwait, idletimeouthandle,
          timers, execq, loading, mem, memorysize, littleendian, sumConsumed,
          afterReset>>

\* -------------------------------------------------------------- the CPU
\* What the CPU and the Timer answer during one quantum: the budget
\* (timer.instructionsperloop), cpu.Step's return value, timer.correction
\* after timer.Update, and cpu.GetTimeToNextInterrupt.
CpuAnswers ==
    {c \in [budget : Budgets, stepsleft : 0..2, correction : Corrections,
            delta : Deltas \cup {None - 1}] :
        /\ c.stepsleft <= c.budget
        \* answers that are not asked for are left out
        /\ (c.stepsleft = 0) = (c.delta = None - 1)
        /\ (c.delta < 0) => (c.correction = <<1, 1>>)}

\* the handler does not run a quantum: nothing is asked
NoAnswer == [budget |-> 0, stepsleft |-> 0, correction |-> <<1, 1>>,
             delta |-> None - 1]

\* the answers to enumerate when a quantum runs iff `runs`
Answers(runs) == IF runs THEN CpuAnswers ELSE {NoAnswer}

\* ------------------------------------------------------- handler records
\* A handler works on a record of the fields of System plus the history
\* of what it did; Commit writes the record back.
Begin(op) ==
    [status |-> status, ips |-> ips, idleElapsed |-> idleElapsed,
     idlemaxwait |-> idlemaxwait, idletimeouthandle |-> idletimeouthandle,
     timers |-> timers, execq |-> execq, mem |-> mem,
     op |-> op, pre |-> status, trace |-> << >>,
     budget |-> 0, stepsleft |-> 0, consumed |-> 0, halted |-> FALSE,
     delta |-> None, mswait |-> None, progressed |-> None,
     reported |-> None, cancelled |-> None, armed |-> None,
     line |-> None, core |-> None,
     image |-> << >>, length |-> None, loaded |-> << >>,
     patchedAt |-> << >>, afterPatch |-> << >>]

InBounds(r) ==
    /\ r.execq <= MaxExec
    /\ r.ips <= MaxIps
    /\ Cardinality(r.timers) <= MaxTimers

\* The ids setTimeout returns are opaque: the code keeps one in
\* this.idletimeouthandle and only hands it to clearTimeout.  States are
\* kept up to a renaming of the ids: the pending timeout the handle names
\* is 1, the others are 2, 3, ... by delta; a handle whose timeout is no
\* longer pending is 0.
StaleTimers(r) == {t \in r.timers : t.id # r.idletimeouthandle}

StaleRank(r, t) ==
    Cardinality({u \in StaleTimers(r) :
                    u.delta < t.delta \/ (u.delta = t.delta /\ u.id < t.id)})

CanonTimers(r) ==
    {[id |-> IF t.id = r.idletimeouthandle THEN 1 ELSE StaleRank(r, t) + 2,
      delta |-> t.delta] : t \in r.timers}

CanonHandle(r) ==
    IF \E t \in r.timers : t.id = r.idletimeouthandle THEN 1
    ELSE IF r.idletimeouthandle = None THEN None ELSE 0

AfterReset(r) ==
    IF r.op = "Reset" THEN TRUE
    ELSE IF r.op = "LoadAndStart" THEN FALSE ELSE afterReset

Commit(r) ==
    /\ InBounds(r)
    /\ status' = r.status
    /\ ips' = r.ips
    \* the elapsed time is read only while idle (RaiseInterrupt) and is
    \* zeroed on every entry to idle: outside idle it is kept saturated
    /\ idleElapsed' = IF r.status = SYSTEM_HALT THEN r.idleElapsed
                      ELSE MaxElapsed
    /\ idlemaxwait' = r.idlemaxwait
    /\ idletimeouthandle' = CanonHandle(r)
    /\ timers' = CanonTimers(r)
    /\ execq' = r.execq
    /\ mem' = r.mem
    /\ sumConsumed' = IF r.op \in {"Init", "Reset", "GetIPS"}
                      THEN 0 ELSE sumConsumed + r.consumed
    /\ afterReset' = AfterReset(r)

Log(s, e) == [s EXCEPT !.trace = Append(@, e)]

TimerIds(ts) == {t.id : t \in ts}

\* setTimeout returns an id no pending timeout has; the id the handle holds
\* is not handed out again while the handle holds it.
NewHandle(s) ==
    CHOOSE i \in 1..(MaxTimers + 3) :
        /\ i \notin TimerIds(s.timers)
        /\ i # s.idletimeouthandle
        /\ \A j \in 1..(i - 1) : j \in TimerIds(s.timers) \/ j = s.idletimeouthandle

\* Math.floor(delta / this.ticksperms / this.timer.correction + 0.5)
MsWait(delta, correction) ==
    (2 * delta * correction[2] + ticksperms * correction[1])
        \div (2 * ticksperms * correction[1])

\* HandleHalt that enters IDLE for a wait of 1 ms as well
HandleHalt_AtLeastOne(s, c) ==
    LET s0 == [Log(s, "cpu.GetTimeToNextInterrupt") EXCEPT !.delta = c.delta]
    IN  IF c.delta = 0 - 1 THEN s0
        ELSE LET s1 == [s0 EXCEPT !.idlemaxwait = c.delta,
                                  !.mswait = MsWait(c.delta, c.correction)]
             IN  IF s1.mswait < 1 THEN s1
                 ELSE LET id == NewHandle(s1)
                      IN  [Log(Log(s1, "status=HALT"), "setTimeout") EXCEPT
                              !.idleElapsed = 0,
                              !.status = SYSTEM_HALT,
                              !.idletimeouthandle = id,
                              !.timers = @ \cup {[id |-> id, delta |-> c.delta]},
                              !.armed = id,
                              !.halted = TRUE]

\* HandleHalt that enters IDLE without handing a wake to setTimeout
HandleHalt_NoArm(s, c) ==
    LET s0 == [Log(s, "cpu.GetTimeToNextInterrupt") EXCEPT !.delta = c.delta]
    IN  IF c.delta = 0 - 1 THEN s0
        ELSE LET s1 == [s0 EXCEPT !.idlemaxwait = c.delta,
                                  !.mswait = MsWait(c.delta, c.correction)]
             IN  IF s1.mswait <= 1 THEN s1
                 ELSE [Log(s1, "status=HALT") EXCEPT
                          !.idleElapsed = 0,
                          !.status = SYSTEM_HALT,
                          !.halted = TRUE]

\* ------------------------------------------------------------ HandleHalt
HandleHalt(s, c) ==
    LET s0 == [Log(s, "cpu.GetTimeToNextInterrupt") EXCEPT !.delta = c.delta]
    IN  IF c.delta = 0 - 1 THEN s0
        ELSE LET s1 == [s0 EXCEPT !.idlemaxwait = c.delta,
                                  !.mswait = MsWait(c.delta, c.correction)]
             IN  IF s1.mswait <= 1 THEN s1
                 ELSE LET id == NewHandle(s1)
                      IN  [Log(Log(s1, "status=HALT"), "setTimeout") EXCEPT
                              !.idleElapsed = 0,
                              !.status = SYSTEM_HALT,
                              !.idletimeouthandle = id,
                              !.timers = @ \cup {[id |-> id, delta |-> c.delta]},
                              !.armed = id,
                              !.halted = TRUE]

\* MainLoop without the status check of its first line
MainLoop_NoGuard(s, c) ==
    LET s1 == [Log(s, "Send execute") EXCEPT !.execq = @ + 1]
        totalsteps == (c.budget - c.stepsleft) + 1
        s2 == [Log(s1, "cpu.Step") EXCEPT
                  !.budget = c.budget,
                  !.stepsleft = c.stepsleft,
                  !.consumed = totalsteps,
                  !.ips = @ + totalsteps]
        s3 == Log(Log(s2, "uart.Step"), "timer.Update")
    IN  IF c.stepsleft # 0 THEN HandleHalt(s3, c) ELSE s3

\* MainLoop whose totalsteps is budget - stepsleft, without the + 1
MainLoop_NoPlusOne(s, c) ==
    IF s.status # SYSTEM_RUN THEN s
    ELSE LET s1 == [Log(s, "Send execute") EXCEPT !.execq = @ + 1]
             totalsteps == c.budget - c.stepsleft
             s2 == [Log(s1, "cpu.Step") EXCEPT
                       !.budget = c.budget,
                       !.stepsleft = c.stepsleft,
                       !.consumed = totalsteps,
                       !.ips = @ + totalsteps]
             s3 == Log(Log(s2, "uart.Step"), "timer.Update")
         IN  IF c.stepsleft # 0 THEN HandleHalt(s3, c) ELSE s3

\* MainLoop that asks for the next quantum only when the CPU did not go
\* idle, after the step instead of before it
MainLoop_SendUnlessIdle(s, c) ==
    IF s.status # SYSTEM_RUN THEN s
    ELSE LET totalsteps == (c.budget - c.stepsleft) + 1
             s2 == [Log(s, "cpu.Step") EXCEPT
                       !.budget = c.budget,
                       !.stepsleft = c.stepsleft,
                       !.consumed = totalsteps,
                       !.ips = @ + totalsteps]
             gotoidle == c.stepsleft # 0
             s3 == Log(Log(s2, "uart.Step"), "timer.Update")
         IN  IF gotoidle THEN HandleHalt(s3, c)
             ELSE [Log(s3, "Send execute") EXCEPT !.execq = @ + 1]

\* -------------------------------------------------------------- MainLoop
MainLoop(s, c) ==
    IF s.status # SYSTEM_RUN THEN s
    ELSE LET s1 == [Log(s, "Send execute") EXCEPT !.execq = @ + 1]
             totalsteps == (c.budget - c.stepsleft) + 1
             s2 == [Log(s1, "cpu.Step") EXCEPT
                       !.budget = c.budget,
                       !.stepsleft = c.stepsleft,
                       !.consumed = totalsteps,
                       !.ips = @ + totalsteps]
             gotoidle == c.stepsleft # 0
             s3 == Log(Log(s2, "uart.Step"), "timer.Update")
         IN  IF gotoidle THEN HandleHalt(s3, c) ELSE s3

\* -------------------------------------------------------- RaiseInterrupt
ClearTimeout(s) ==
    [Log(s, "clearTimeout") EXCEPT
        !.timers = {t \in @ : t.id # s.idletimeouthandle},
        !.cancelled = s.idletimeouthandle]

ProgressTime(s, cycles) ==
    [Log(s, "cpu.ProgressTime") EXCEPT !.progressed = cycles]

\* RaiseInterrupt that wakes without clearTimeout
RaiseInterrupt_NoCancel(s, line, c) ==
    LET s0 == [Log(s, "cpu.RaiseInterrupt") EXCEPT !.line = line, !.core = 0 - 1]
    IN  IF s0.status = SYSTEM_HALT
        THEN LET s1 == [Log(s0, "status=RUN") EXCEPT !.status = SYSTEM_RUN]
                 delta == Min(s1.idleElapsed * ticksperms, s1.idlemaxwait)
             IN  MainLoop(ProgressTime(s1, delta), c)
        ELSE s0

\* RaiseInterrupt that wakes first and forwards the line to the CPU last
RaiseInterrupt_ForwardLast(s, line, c) ==
    LET woken ==
            IF s.status = SYSTEM_HALT
            THEN LET s1 == [Log(s, "status=RUN") EXCEPT !.status = SYSTEM_RUN]
                     s2 == ClearTimeout(s1)
                     delta == Min(s2.idleElapsed * ticksperms, s2.idlemaxwait)
                 IN  MainLoop(ProgressTime(s2, delta), c)
            ELSE s
    IN  [Log(woken, "cpu.RaiseInterrupt") EXCEPT !.line = line, !.core = 0 - 1]

RaiseInterrupt(s, line, c) ==
    LET s0 == [Log(s, "cpu.RaiseInterrupt") EXCEPT !.line = line, !.core = 0 - 1]
    IN  IF s0.status = SYSTEM_HALT
        THEN LET s1 == [Log(s0, "status=RUN") EXCEPT !.status = SYSTEM_RUN]
                 s2 == ClearTimeout(s1)
                 delta == Min(s2.idleElapsed * ticksperms, s2.idlemaxwait)
             IN  MainLoop(ProgressTime(s2, delta), c)
        ELSE s0

\* ClearInterrupt that ends the idle period as RaiseInterrupt does
ClearInterrupt_Wakes(s, line) ==
    LET s0 == [Log(s, "cpu.ClearInterrupt") EXCEPT !.line = line, !.core = 0 - 1]
    IN  IF s0.status = SYSTEM_HALT
        THEN ClearTimeout([Log(s0, "status=RUN") EXCEPT !.status = SYSTEM_RUN])
        ELSE s0

ClearInterrupt(s, line) ==
    [Log(s, "cpu.ClearInterrupt") EXCEPT !.line = line, !.core = 0 - 1]

\* RaiseSoftInterrupt that makes the halt check of RaiseInterrupt
RaiseSoftInterrupt_Wakes(s, line, cpuid) ==
    LET s0 == [Log(s, "cpu.RaiseInterrupt") EXCEPT !.line = line, !.core = cpuid]
    IN  IF s0.status = SYSTEM_HALT
        THEN ClearTimeout([Log(s0, "status=RUN") EXCEPT !.status = SYSTEM_RUN])
        ELSE s0

RaiseSoftInterrupt(s, line, cpuid) ==
    [Log(s, "cpu.RaiseInterrupt") EXCEPT !.line = line, !.core = cpuid]

ClearSoftInterrupt(s, line, cpuid) ==
    [Log(s, "cpu.ClearInterrupt") EXCEPT !.line = line, !.core = cpuid]

\* the function handed to setTimeout with its status test turned around:
\* it never ends an idle period
WakeCallback_NeverWakes(s, delta, c) ==
    IF s.status = SYSTEM_RUN
    THEN LET s1 == [Log(s, "status=RUN") EXCEPT !.status = SYSTEM_RUN]
         IN  MainLoop(ProgressTime(s1, delta), c)
    ELSE s

\* the function handed to setTimeout in HandleHalt; delta is the value
\* the closure captured
WakeCallback(s, delta, c) ==
    IF s.status = SYSTEM_HALT
    THEN LET s1 == [Log(s, "status=RUN") EXCEPT !.status = SYSTEM_RUN]
         IN  MainLoop(ProgressTime(s1, delta), c)
    ELSE s

\* ----------------------------------------------------------------- Reset
Reset(s) ==
    LET s1 == [Log(s, "status=STOP") EXCEPT !.status = SYSTEM_STOP]
        s2 == Log(s1, "devices.Reset")
    IN  [s2 EXCEPT !.ips = 0]

\* the GetIPS handler without this.ips = 0
GetIPS_NoZero(s) ==
    [Log(s, "Send GetIPS") EXCEPT !.reported = s.ips]

\* ---------------------------------------------------------------- GetIPS
GetIPS(s) ==
    [Log(s, "Send GetIPS") EXCEPT !.reported = s.ips, !.ips = 0]

\* =========================================================== boot loader
Byte(x) == x % 256

\* m[a] of a Uint8Array: undefined (None) outside the array
Rd(m, a) == IF a \in DOMAIN m THEN m[a] ELSE None

\* m[a] = v of a Uint8Array: ignored outside the array
Wr(m, a, v) == IF a \in DOMAIN m THEN [m EXCEPT ![a] = Byte(v)] ELSE m

\* buffer8[i] of the image, a sequence holding byte i at position i + 1
At(buf, i) == IF i + 1 \in DOMAIN buf THEN buf[i + 1] ELSE None

RECURSIVE CopyFrom(_, _, _, _, _)
\* for (i = from; i < from + n; i++) m[to - from + i] = buf[i]
CopyFrom(m, buf, from, to, n) ==
    IF n <= 0 THEN m
    ELSE CopyFrom(Wr(m, to, At(buf, from)), buf, from + 1, to + 1, n - 1)

\* elf.IsELF, on an image and on the memory array
IsELF(buf) ==
    At(buf, 0) = 127 /\ At(buf, 1) = 69 /\ At(buf, 2) = 76 /\ At(buf, 3) = 70

IsELFMem(m) ==
    Rd(m, 0) = 127 /\ Rd(m, 1) = 69 /\ Rd(m, 2) = 76 /\ Rd(m, 3) = 70

\* bzip2.IsBZIP2
IsBZIP2(buf) == At(buf, 0) = 66 /\ At(buf, 1) = 90 /\ At(buf, 2) = 104

\* elf.Extract: copies the loadable segment to its target address.  The
\* images of the model hold one segment: byte 4 is the target address,
\* byte 5 its size, the data follows.
Extract(buf, m) == CopyFrom(m, buf, 6, At(buf, 4), At(buf, 5))

RECURSIVE Expand(_, _)
\* bzip2.simple: the bytes handed to the callback, in order.  The images of
\* the model hold (count, byte) runs after the signature.
Expand(buf, i) ==
    IF i + 1 >= Len(buf) THEN << >>
    ELSE [k \in 1..At(buf, i) |-> At(buf, i + 1)] \o Expand(buf, i + 2)

Bzip2Simple(buf) == Expand(buf, 3)

\* the bytes m[0..n) as a buffer
Region(m, n) == [k \in 1..n |-> m[k - 1]]

\* this.ram.Little2Big(length): reverses the bytes of every 32-bit word
Little2Big(m, length) ==
    [a \in DOMAIN m |->
        IF a < 4 * (length \div 4) THEN m[4 * (a \div 4) + (3 - (a % 4))] ELSE m[a]]

\* (this.memorysize*0x100000)>>24 and >>16 as stored into a Uint8Array
SizeByte24(ms) == Byte((ms * 1048576) \div 16777216)
SizeByte16(ms) == Byte((ms * 1048576) \div 65536)

\* the test of PatchKernel at offset i
MarkerAt(m, i) ==
    /\ Rd(m, i) = 109 /\ Rd(m, i + 1) = 101 /\ Rd(m, i + 2) = 109
    /\ Rd(m, i + 3) = 111 /\ Rd(m, i + 4) = 114 /\ Rd(m, i + 5) = 121
    /\ Rd(m, i + 6) = 0
    /\ Rd(m, i + 24) = 1 /\ Rd(m, i + 25) = 240
    /\ Rd(m, i + 26) = 0 /\ Rd(m, i + 27) = 0

\* the four stores of PatchKernel with the two size bytes exchanged
PatchAt_Exchanged(m, i, ms) ==
    Wr(Wr(Wr(Wr(m, i + 24, SizeByte16(ms)), i + 25, SizeByte24(ms)), i + 26, 0),
       i + 27, 0)

PatchAt(m, i, ms) ==
    Wr(Wr(Wr(Wr(m, i + 24, SizeByte24(ms)), i + 25, SizeByte16(ms)), i + 26, 0),
       i + 27, 0)

RECURSIVE PatchLoop(_, _, _, _)
\* the loop of PatchKernel from offset i on; p.m is the memory, p.at the
\* offsets patched so far
PatchLoop(p, i, length, ms) ==
    IF i >= length THEN p
    ELSE IF MarkerAt(p.m, i)
         THEN PatchLoop([m |-> PatchAt(p.m, i, ms), at |-> Append(p.at, i)],
                        i + 1, length, ms)
         ELSE PatchLoop(p, i + 1, length, ms)

PatchKernel(m, length, ms) == PatchLoop([m |-> m, at |-> << >>], 0, length, ms)

\* OnKernelLoaded that hands the compressed buffer to elf.Extract
Materialize_ExtractCompressed(m, buf) ==
    IF IsELF(buf)
    THEN [m |-> Extract(buf, m), length |-> Len(buf), how |-> "elf",
          written |-> m, src |-> buf]
    ELSE IF IsBZIP2(buf)
         THEN LET out == Bzip2Simple(buf)
                  m1 == CopyFrom(m, out, 0, 0, Len(out))
                  temp == buf
              IN  IF IsELFMem(m1)
                  THEN [m |-> Extract(temp, m1),
                        length |-> Len(out), how |-> "bzip2+elf",
                        written |-> m1, src |-> temp]
                  ELSE [m |-> m1, length |-> Len(out), how |-> "bzip2",
                        written |-> m1, src |-> << >>]
         ELSE LET m1 == CopyFrom(m, buf, 0, 0, Len(buf))
              IN  [m |-> m1, length |-> Len(buf), how |-> "raw",
                   written |-> m1, src |-> << >>]

\* OnKernelLoaded whose raw copy loop stops one byte early
Materialize_Short(m, buf) ==
    IF IsELF(buf)
    THEN [m |-> Extract(buf, m), length |-> Len(buf), how |-> "elf",
          written |-> m, src |-> buf]
    ELSE IF IsBZIP2(buf)
         THEN LET out == Bzip2Simple(buf)
                  m1 == CopyFrom(m, out, 0, 0, Len(out))
                  temp == Region(m1, Len(out))
              IN  IF IsELFMem(m1)
                  THEN [m |-> Extract(temp, m1),
                        length |-> Len(out), how |-> "bzip2+elf",
                        written |-> m1, src |-> temp]
                  ELSE [m |-> m1, length |-> Len(out), how |-> "bzip2",
                        written |-> m1, src |-> << >>]
         ELSE LET m1 == CopyFrom(m, buf, 0, 0, Len(buf) - 1)
              IN  [m |-> m1, length |-> Len(buf), how |-> "raw",
                   written |-> m1, src |-> << >>]

\* the three ways OnKernelLoaded fills the memory: the memory and length
\* mat.written is the memory before elf.Extract runs, mat.src the buffer
\* handed to elf.Extract
Materialize(m, buf) ==
    IF IsELF(buf)
    THEN [m |-> Extract(buf, m), length |-> Len(buf), how |-> "elf",
          written |-> m, src |-> buf]
    ELSE IF IsBZIP2(buf)
         THEN LET out == Bzip2Simple(buf)
                  m1 == CopyFrom(m, out, 0, 0, Len(out))
                  temp == Region(m1, Len(out))
              IN  IF IsELFMem(m1)
                  THEN [m |-> Extract(temp, m1),
                        length |-> Len(out), how |-> "bzip2+elf",
                        written |-> m1, src |-> temp]
                  ELSE [m |-> m1, length |-> Len(out), how |-> "bzip2",
                        written |-> m1, src |-> << >>]
         ELSE LET m1 == CopyFrom(m, buf, 0, 0, Len(buf))
              IN  [m |-> m1, length |-> Len(buf), how |-> "raw",
                   written |-> m1, src |-> << >>]

\* OnKernelLoaded that sets the state RUNNING and asks for the first quantum
\* before it patches, swaps and resets the CPU
OnKernelLoaded_CommitFirst(s, buf) ==
    LET mat == Materialize(s.mem, buf)
        s1 == [Log(s, mat.how) EXCEPT
                  !.mem = mat.m, !.image = buf, !.length = mat.length,
                  !.loaded = mat.m]
        s2 == [Log(s1, "status=RUN") EXCEPT !.status = SYSTEM_RUN]
        s3 == [Log(s2, "Send execute") EXCEPT !.execq = @ + 1]
        p == PatchKernel(s3.mem, mat.length, memorysize)
        s4 == IF littleendian = FALSE
              THEN [Log(Log(s3, "PatchKernel"), "Little2Big") EXCEPT
                       !.mem = Little2Big(p.m, mat.length),
                       !.patchedAt = p.at,
                       !.afterPatch = p.m]
              ELSE s3
    IN  Log(Log(s4, "cpu.Reset"), "cpu.AnalyzeImage")

OnKernelLoaded(s, buf) ==
    LET mat == Materialize(s.mem, buf)
        s1 == [Log(s, mat.how) EXCEPT
                  !.mem = mat.m, !.image = buf, !.length = mat.length,
                  !.loaded = mat.m]
        p == PatchKernel(s1.mem, mat.length, memorysize)
        s2 == IF littleendian = FALSE
              THEN [Log(Log(s1, "PatchKernel"), "Little2Big") EXCEPT
                       !.mem = Little2Big(p.m, mat.length),
                       !.patchedAt = p.at,
                       !.afterPatch = p.m]
              ELSE s1
        s3 == Log(Log(s2, "cpu.Reset"), "cpu.AnalyzeImage")
        s4 == [Log(s3, "status=RUN") EXCEPT !.status = SYSTEM_RUN]
    IN  [Log(s4, "Send execute") EXCEPT !.execq = @ + 1]

\* ------------------------------------------------------------------ Init
\* this.cpu.littleendian of the CPU that CreateCPU builds
LittleEndianOf(arch) == arch = "riscv"

ZeroMem == [a \in 0..(MemLen - 1) |-> 0]

InitSystem(s, system) ==
    [Log(Log(s, "status=STOP"), "new Timer") EXCEPT
        !.status = SYSTEM_STOP,
        !.mem = ZeroMem,
        !.ips = 0,
        !.idleElapsed = MaxElapsed,
        !.idlemaxwait = 0]

\* ------------------------------------------------------- images, configs
Zeros(n) == [k \in 1..n |-> 0]
Marker == <<109, 101, 109, 111, 114, 121, 0>>
Placeholder == <<1, 240, 0, 0>>

\* raw flat binaries
RawShort == <<17, 34, 51, 68, 85, 102>>
RawDtb(off) == Zeros(off) \o Marker \o Zeros(17) \o Placeholder
RawOtherSize == Marker \o Zeros(17) \o <<3, 240, 0, 0>>
RawMarkerOnly == Marker \o <<9>>
RawSwappedField == Zeros(24) \o <<0, 0, 240, 1>>
\* one ELF segment of three bytes for address 8
ElfImage == <<127, 69, 76, 70, 8, 3, 201, 202, 203>>
\* compressed 7 7 7 9 9
BzRaw == <<66, 90, 104, 3, 7, 2, 9>>
\* compressed ELF image: a segment 33 33 for address 12
BzElf == <<66, 90, 104, 1, 127, 1, 69, 1, 76, 1, 70, 1, 12, 1, 2, 2, 33>>

Images == {RawShort, RawDtb(0), RawDtb(5), RawOtherSize, RawMarkerOnly,
           RawSwappedField, ElfImage, BzRaw, BzElf}
Configs == [arch : {"or1k", "riscv"}, memorysize : {2, 32, 64}]

SchedImages == {RawShort}
SchedConfigs == {[arch |-> "or1k", memorysize |-> 32]}

\* =============================================================== actions
Keep(r) ==
    /\ sumConsumed' = sumConsumed + r.consumed
    /\ afterReset' = AfterReset(r)

InitCmd(system) ==
    /\ Commit(InitSystem(Begin("Init"), system))
    /\ inited' = TRUE
    /\ memorysize' = system.memorysize - 1
    /\ littleendian' = LittleEndianOf(system.arch)
    /\ UNCHANGED loading

ResetCmd ==
    /\ inited
    /\ Commit(Reset(Begin("Reset")))
    /\ UNCHANGED <<inited, loading, memorysize, littleendian>>

GetIPSCmd ==
    /\ inited
    /\ Commit(GetIPS(Begin("GetIPS")))
    /\ UNCHANGED <<inited, loading, memorysize, littleendian>>

\* LoadImageAndStart with a url: the image arrives later
LoadUrl ==
    /\ inited
    /\ loading < MaxLoads
    /\ loading' = loading + 1
    /\ Keep(Log(Begin("LoadAndStart"), "utils.LoadBinaryResource"))
    /\ UNCHANGED <<inited, status, ips, idleElapsed, idlemaxwait,
                   idletimeouthandle, timers, execq, mem, memorysize,
                   littleendian>>

\* LoadImageAndStart with a buffer
LoadBuffer(buf) ==
    /\ inited
    /\ Commit(OnKernelLoaded(Begin("LoadAndStart"), buf))
    /\ UNCHANGED <<inited, loading, memorysize, littleendian>>

\* utils.LoadBinaryResource delivers the image
KernelLoaded(buf) ==
    /\ inited
    /\ loading > 0
    /\ loading' = loading - 1
    /\ Commit(OnKernelLoaded(Begin("OnKernelLoaded"), buf))
    /\ UNCHANGED <<inited, memorysize, littleendian>>

\* utils.LoadBinaryResource fails: the error handler throws
LoadFailed ==
    /\ loading > 0
    /\ loading' = loading - 1
    /\ Keep(Log(Begin("LoadError"), "throw"))
    /\ UNCHANGED <<inited, status, ips, idleElapsed, idlemaxwait,
                   idletimeouthandle, timers, execq, mem, memorysize,
                   littleendian>>

\* the 'execute' message is delivered
Execute ==
    /\ inited
    /\ execq > 0
    /\ \E c \in Answers(status = SYSTEM_RUN) :
          Commit(MainLoop([Begin("execute") EXCEPT !.execq = @ - 1], c))
    /\ UNCHANGED <<inited, loading, memorysize, littleendian>>

Raise ==
    /\ inited
    /\ \E line \in Lines, c \in Answers(status = SYSTEM_HALT) :
          Commit(RaiseInterrupt(Begin("RaiseInterrupt"), line, c))
    /\ UNCHANGED <<inited, loading, memorysize, littleendian>>

Clear ==
    /\ inited
    /\ \E line \in Lines : Commit(ClearInterrupt(Begin("ClearInterrupt"), line))
    /\ UNCHANGED <<inited, loading, memorysize, littleendian>>

RaiseSoft ==
    /\ inited
    /\ \E line \in Lines, cpuid \in Cores :
          Commit(RaiseSoftInterrupt(Begin("RaiseSoftInterrupt"), line, cpuid))
    /\ UNCHANGED <<inited, loading, memorysize, littleendian>>

ClearSoft ==
    /\ inited
    /\ \E line \in Lines, cpuid \in Cores :
          Commit(ClearSoftInterrupt(Begin("ClearSoftInterrupt"), line, cpuid))
    /\ UNCHANGED <<inited, loading, memorysize, littleendian>>

\* the host runs a pending timeout
TimerFire ==
    /\ \E t \in timers, c \in Answers(status = SYSTEM_HALT) :
          Commit(WakeCallback([Begin("timeout") EXCEPT !.timers = @ \ {t}],
                              t.delta, c))
    /\ UNCHANGED <<inited, loading, memorysize, littleendian>>

\* a millisecond of the idle period passes
Tick ==
    /\ status = SYSTEM_HALT
    /\ idleElapsed < MaxElapsed
    /\ idleElapsed' = idleElapsed + 1
    /\ Keep(Begin("tick"))
    /\ UNCHANGED <<inited, status, ips, idlemaxwait, idletimeouthandle,
                   timers, execq, loading, mem, memorysize, littleendian>>

Init ==
    /\ inited = FALSE
    /\ status = Undefined
    /\ ips = 0
    /\ idleElapsed = MaxElapsed
    /\ idlemaxwait = 0
    /\ idletimeouthandle = None
    /\ timers = {}
    /\ execq = 0
    /\ loading = 0
    /\ mem = ZeroMem
    /\ memorysize = 0
    /\ littleendian = FALSE
    /\ sumConsumed = 0
    /\ afterReset = FALSE

Next ==
    \/ \E system \in SchedConfigs : InitCmd(system)
    \/ ResetCmd
    \/ GetIPSCmd
    \/ LoadUrl
    \/ \E buf \in SchedImages : LoadBuffer(buf)
    \/ \E buf \in SchedImages : KernelLoaded(buf)
    \/ LoadFailed
    \/ Execute
    \/ Raise
    \/ Clear
    \/ RaiseSoft
    \/ ClearSoft
    \/ TimerFire
    \/ Tick

Spec == Init /\ [][Next]_vars

\* the timeout the handle names fires while the system is idle
WakeFires ==
    /\ status = SYSTEM_HALT
    /\ \E t \in timers, c \in CpuAnswers :
          /\ t.id = idletimeouthandle
          /\ Commit(WakeCallback([Begin("timeout") EXCEPT !.timers = @ \ {t}],
                                 t.delta, c))
    /\ UNCHANGED <<inited, loading, memorysize, littleendian>>

\* The scheduler with images handed over as buffers.  Left out are the
\* steps that change nothing an idle period depends on: the fetch of an
\* image by URL (its delivery acts as LoadBuffer does) and the calls that
\* only forward to the CPU.
NextLive ==
    \/ \E system \in SchedConfigs : InitCmd(system)
    \/ ResetCmd
    \/ GetIPSCmd
    \/ \E buf \in SchedImages : LoadBuffer(buf)
    \/ Execute
    \/ Raise
    \/ TimerFire
    \/ Tick

\* The worker's event loop runs what the code has scheduled: the timeout
\* that setTimeout armed fires, a queued 'execute' is delivered, and the
\* clock that utils.GetMilliseconds reads advances.
SpecLive ==
    /\ Init /\ [][NextLive]_vars
    /\ WF_vars(WakeFires)
    /\ WF_vars(status = SYSTEM_HALT /\ Execute)
    /\ WF_vars(Tick)

\* The worker's event loop delivers every 'execute' message that
\* message.Send has queued.
SpecRun ==
    /\ Init /\ [][NextLive]_vars
    /\ WF_vars(Execute)

\* the boot loader on every image and configuration
NextLoad ==
    \/ \E system \in Configs : InitCmd(system)
    \/ \E buf \in Images : LoadBuffer(buf)
    \/ LoadUrl
    \/ \E buf \in Images : KernelLoaded(buf)

SpecLoad == Init /\ [][NextLoad]_vars

\* ================================================================ claims
\* What a handler would do from the present state, for every answer of
\* the CPU: the records the handlers return.
\* the handlers applied to the present state
QuantumResult(c) == MainLoop(Begin("execute"), c)
RaiseResult(line, c) == RaiseInterrupt(Begin("RaiseInterrupt"), line, c)
WakeResult(t, c) ==
    WakeCallback([Begin("timeout") EXCEPT !.timers = @ \ {t}], t.delta, c)
SoftResult(line, cpuid) ==
    RaiseSoftInterrupt(Begin("RaiseSoftInterrupt"), line, cpuid)

Has(trace, e) == \E k \in DOMAIN trace : trace[k] = e
\* every a in the trace comes before every b
Precedes(trace, a, b) ==
    \A i \in DOMAIN trace :
        trace[i] = a => \A j \in DOMAIN trace : trace[j] = b => i < j
HandleArmed(h, ts) == \E t \in ts : t.id = h

\* ------------------------------------------------------------------- C1
\* C1 as stated: RaiseInterrupt in IDLE leaves the state RUNNING when the
\* call returns, whatever the CPU does in the quantum it runs.
C1_Original ==
    [][(Raise /\ status = SYSTEM_HALT) => status' = SYSTEM_RUN]_vars

\* C1 amended: RaiseInterrupt in IDLE sets the state RUNNING and cancels
\* the deferred wake the handle holds before it runs a quantum; when the
\* call returns the state is RUNNING unless that quantum went idle again,
\* and then it is IDLE with a newly armed wake; the wake the handle held
\* before the call is no longer pending.
C1_Amended ==
    status = SYSTEM_HALT =>
        \A line \in Lines, c \in CpuAnswers :
          LET r == RaiseResult(line, c)
          IN
            /\ Has(r.trace, "status=RUN") /\ Has(r.trace, "cpu.Step")
            /\ Precedes(r.trace, "status=RUN", "cpu.Step")
            /\ Precedes(r.trace, "clearTimeout", "cpu.Step")
            /\ r.cancelled = idletimeouthandle
            /\ ~HandleArmed(idletimeouthandle, r.timers)
            /\ IF r.halted
               THEN /\ r.status = SYSTEM_HALT
                    /\ r.idletimeouthandle # idletimeouthandle
                    /\ HandleArmed(r.idletimeouthandle, r.timers)
               ELSE r.status = SYSTEM_RUN

\* an idle state whose wake is pending, from which RaiseInterrupt ends
\* idle again and from which it ends running
C1_Witness ==
    /\ status = SYSTEM_HALT
    /\ HandleArmed(idletimeouthandle, timers)
    /\ \E line \in Lines, c \in CpuAnswers :
          InBounds(RaiseResult(line, c))
          /\ RaiseResult(line, c).status = SYSTEM_HALT
    /\ \E line \in Lines, c \in CpuAnswers :
          InBounds(RaiseResult(line, c))
          /\ RaiseResult(line, c).status = SYSTEM_RUN

\* ------------------------------------------------------------------- C2
\* C2: at most one deferred wake is pending in the host timer queue.
C2_AtMostOneWake == Cardinality(timers) <= 1

C4_MainLoopNoOp ==
    status # SYSTEM_RUN =>
        \A c \in CpuAnswers : QuantumResult(c) = Begin("execute")

\* an 'execute' is about to be delivered to an idle system
C4_Witness ==
    /\ status = SYSTEM_HALT
    /\ execq > 0
    /\ timers # {}

\* ------------------------------------------------------------------- C5
\* C5: Reset sets STOPPED and zeroes the counter, and from the return of
\* Reset until the next LoadAndStart command the state stays STOPPED and
\* no quantum steps the CPU (the counter stays 0).
C5_StoppedUntilLoadAndStart ==
    afterReset => (status = SYSTEM_STOP /\ ips = 0)

\* ------------------------------------------------------------------- C6
\* the quantum a handler ran counted at least one step into the counter
ConsumedAtLeastOne(r) ==
    Has(r.trace, "cpu.Step") =>
        /\ r.consumed >= 1
        /\ r.ips = ips + r.consumed

\* C6: the totalsteps of every quantum, added to the counter, is >= 1 for
\* every stepsleft in 0..budget.
C6_ConsumedAtLeastOne ==
    /\ \A c \in Answers(status = SYSTEM_RUN) :
          ConsumedAtLeastOne(QuantumResult(c))
    /\ \A c \in Answers(status = SYSTEM_HALT) :
          /\ \A line \in Lines : ConsumedAtLeastOne(RaiseResult(line, c))
          /\ \A t \in timers : ConsumedAtLeastOne(WakeResult(t, c))

\* a quantum in which the CPU returns the whole budget unused
C6_Witness ==
    /\ status = SYSTEM_RUN
    /\ execq > 0
    /\ \E c \in CpuAnswers :
          LET r == QuantumResult(c)
          IN  c.stepsleft = c.budget /\ InBounds(r) /\ r.consumed = 1

\* ------------------------------------------------------------------- C7
\* C7: GetIPS reports the sum of the totalsteps since the counter was
\* last zeroed and zeroes it, a second GetIPS reports 0, and quanta never
\* decrease the counter.
C7_GetIPS ==
    /\ ips = sumConsumed
    /\ LET r == GetIPS(Begin("GetIPS"))
       IN  /\ r.reported = sumConsumed
           /\ r.ips = 0
           /\ GetIPS(r).reported = 0
    /\ \A c \in Answers(status = SYSTEM_RUN) : QuantumResult(c).ips >= ips
    /\ \A c \in Answers(status = SYSTEM_HALT) :
          /\ \A line \in Lines : RaiseResult(line, c).ips >= ips
          /\ \A t \in timers : WakeResult(t, c).ips >= ips

\* the counter holds the steps of more than one quantum
C7_Witness ==
    /\ inited
    /\ ips >= 2
    /\ sumConsumed = ips
    /\ GetIPS(Begin("GetIPS")).reported >= 2

\* ------------------------------------------------------------------- C8
IsRaw(buf) == ~IsELF(buf) /\ ~IsBZIP2(buf)

\* C8 as stated: after Init for or1k with 32 MB, LoadAndStart of a raw
\* image of length L leaves memory [0..L) equal to the image and the
\* state RUNNING.
C8_Original ==
    [][\A buf \in Images :
          (LoadBuffer(buf) /\ IsRaw(buf) /\ ~littleendian /\ memorysize = 31)
          => /\ status' = SYSTEM_RUN
             /\ \A i \in 0..(Len(buf) - 1) : mem'[i] = buf[i + 1]]_vars

\* where byte i of memory comes from in an image of length n that was
\* byte-swapped word by word
SwappedFrom(i, n) ==
    IF i < 4 * (n \div 4) THEN 4 * (i \div 4) + (3 - (i % 4)) ELSE i

InSizeField(a, at) ==
    \E k \in DOMAIN at : a >= at[k] + 24 /\ a <= at[k] + 27

\* C8 amended: LoadAndStart of a raw image of length L leaves the state
\* RUNNING and memory [0..L) holding the image: verbatim for a
\* little-endian CPU; for a big-endian CPU (or1k) with the bytes of every
\* complete 32-bit word in reverse order, the size fields that the
\* configuration patch rewrites excepted.
C8_Amended ==
    inited =>
        \A buf \in Images :
            IsRaw(buf) =>
                LET r == OnKernelLoaded(Begin("LoadAndStart"), buf)
                    n == Len(buf)
                IN  /\ r.status = SYSTEM_RUN
                    /\ \A i \in 0..(n - 1) :
                          IF littleendian
                          THEN r.mem[i] = buf[i + 1]
                          ELSE InSizeField(SwappedFrom(i, n), r.patchedAt)
                               \/ r.mem[i] = buf[SwappedFrom(i, n) + 1]

\* RawShort loaded by a big-endian CPU: first word reversed, rest as is
C8_Witness ==
    /\ ~littleendian
    /\ status = SYSTEM_RUN
    /\ mem[0] = 68 /\ mem[1] = 51 /\ mem[2] = 34 /\ mem[3] = 17
    /\ mem[4] = 85 /\ mem[5] = 102

\* ------------------------------------------------------------------- C9
\* "memory\0" at offset i and the placeholder size at i+24..i+27
HasMarker(m, i) ==
    /\ \A k \in 1..7 : Rd(m, i + k - 1) = Marker[k]
    /\ \A k \in 1..4 : Rd(m, i + 23 + k) = Placeholder[k]

SizeFieldIs(m, i, mbytes) ==
    /\ m[i + 24] = ((mbytes * 1048576) \div 16777216) % 256
    /\ m[i + 25] = ((mbytes * 1048576) \div 65536) % 256
    /\ m[i + 26] = 0
    /\ m[i + 27] = 0

\* C9 as stated: the size field holds the configured RAM size of S MB
\* (Init stores S - 1 in memorysize).
C9_Original ==
    (inited /\ ~littleendian) =>
        \A buf \in Images :
            LET r == OnKernelLoaded(Begin("LoadAndStart"), buf)
            IN  \A i \in 0..(r.length - 1) :
                    HasMarker(r.loaded, i)
                    => SizeFieldIs(r.afterPatch, i, memorysize + 1)

\* C9 amended: the size field holds the size of S - 1 MB, the configured
\* size less the 1 MB that Init reserves for the CPU cores, and
\* PatchKernel changes no other byte.
C9_Amended ==
    (inited /\ ~littleendian) =>
        \A buf \in Images :
            LET r == OnKernelLoaded(Begin("LoadAndStart"), buf)
                found == {i \in 0..(r.length - 1) : HasMarker(r.loaded, i)}
            IN  /\ \A i \in found : SizeFieldIs(r.afterPatch, i, memorysize)
                /\ \A a \in DOMAIN mem :
                      (\E i \in found : a >= i + 24 /\ a <= i + 27)
                      \/ r.afterPatch[a] = r.loaded[a]

\* RawDtb(0) loaded with 64 MB configured: the field holds 63 MB, swapped
C9_Witness ==
    /\ ~littleendian
    /\ memorysize = 63
    /\ mem[0] = 111 /\ mem[3] = 109
    /\ mem[24] = 0 /\ mem[25] = 0 /\ mem[26] = 240 /\ mem[27] = 3

First(trace, e) ==
    IF Has(trace, e)
    THEN CHOOSE k \in DOMAIN trace :
            trace[k] = e /\ \A j \in 1..(k - 1) : trace[j] # e
    ELSE 0

Count(trace, e) == Cardinality({k \in DOMAIN trace : trace[k] = e})

\* C11: every raise forwards the line to the CPU, once, as the first thing
\* it does: before the state is set RUNNING, before cpu.ProgressTime and
\* before the quantum of the early wake steps the CPU.
C11_ForwardFirst ==
    /\ \A line \in Lines, c \in Answers(status = SYSTEM_HALT) :
          LET r == RaiseResult(line, c)
          IN  /\ First(r.trace, "cpu.RaiseInterrupt") = 1
              /\ Count(r.trace, "cpu.RaiseInterrupt") = 1
              /\ r.line = line
              /\ r.core = 0 - 1
              /\ Precedes(r.trace, "cpu.RaiseInterrupt", "status=RUN")
              /\ Precedes(r.trace, "cpu.RaiseInterrupt", "cpu.ProgressTime")
              /\ Precedes(r.trace, "cpu.RaiseInterrupt", "cpu.Step")
              /\ status = SYSTEM_HALT =>
                    /\ First(r.trace, "status=RUN") > 1
                    /\ First(r.trace, "cpu.ProgressTime") > 1
                    /\ First(r.trace, "cpu.Step") > 1
              /\ status # SYSTEM_HALT => r.trace = <<"cpu.RaiseInterrupt">>
    /\ \A line \in Lines, cpuid \in Cores :
          LET r == SoftResult(line, cpuid)
          IN  /\ r.trace = <<"cpu.RaiseInterrupt">>
              /\ r.line = line
              /\ r.core = cpuid

\* a raise in an idle period that has lasted a while: the early wake
\* advances the clock and steps the CPU
C11_Witness ==
    /\ status = SYSTEM_HALT
    /\ idleElapsed > 0
    /\ \E line \in Lines, c \in CpuAnswers :
          LET r == RaiseResult(line, c)
          IN  InBounds(r) /\ r.progressed > 0 /\ Has(r.trace, "cpu.Step")

\* ------------------------------------------------------------------ C12
\* the handler result r left every field of System as it is now
FieldsUnchanged(r) ==
    /\ r.status = status
    /\ r.ips = ips
    /\ r.idleElapsed = idleElapsed
    /\ r.idlemaxwait = idlemaxwait
    /\ r.idletimeouthandle = idletimeouthandle
    /\ r.timers = timers
    /\ r.execq = execq
    /\ r.mem = mem

\* C12: ClearInterrupt and ClearSoftInterrupt, in every state, only forward
\* to the CPU: state, deferred wake, idle bookkeeping, counter and queued
\* 'execute' messages are unchanged.
C12_ClearFrame ==
    /\ \A line \in Lines :
          LET r == ClearInterrupt(Begin("ClearInterrupt"), line)
          IN  /\ r.trace = <<"cpu.ClearInterrupt">>
              /\ r.line = line /\ r.core = 0 - 1
              /\ FieldsUnchanged(r)
    /\ \A line \in Lines, cpuid \in Cores :
          LET r == ClearSoftInterrupt(Begin("ClearSoftInterrupt"), line, cpuid)
          IN  /\ r.trace = <<"cpu.ClearInterrupt">>
              /\ r.line = line /\ r.core = cpuid
              /\ FieldsUnchanged(r)

\* an idle period in progress, with work counted and an 'execute' queued
C12_Witness ==
    /\ status = SYSTEM_HALT
    /\ HandleArmed(idletimeouthandle, timers)
    /\ idleElapsed > 0
    /\ ips > 1
    /\ execq > 0

\* ------------------------------------------------------------------ C13
\* C13: for a bzip2 image, length is the number of bytes the decompressor
\* handed over, memory [0..length) holds them in order, and when they start
\* with the ELF signature elf.Extract is given a copy of that region, not
\* the compressed buffer.
C13_Bzip2 ==
    inited =>
        \A buf \in Images :
            (IsBZIP2(buf) /\ ~IsELF(buf)) =>
                LET mat == Materialize(mem, buf)
                    out == Bzip2Simple(buf)
                    r == OnKernelLoaded(Begin("LoadAndStart"), buf)
                IN  /\ mat.length = Len(out)
                    /\ r.length = Len(out)
                    /\ \A i \in 0..(Len(out) - 1) : mat.written[i] = out[i + 1]
                    /\ \A a \in DOMAIN mem :
                          a >= Len(out) => mat.written[a] = mem[a]
                    /\ IsELF(out) =>
                          /\ mat.how = "bzip2+elf"
                          /\ mat.src = out
                          /\ mat.src # buf
                          /\ mat.m = Extract(out, mat.written)
                    /\ mat.how = "bzip2" => mat.m = mat.written
                    /\ r.loaded = mat.m

\* the compressed ELF image loaded by a little-endian CPU: the header at
\* 0 as decompressed, the segment at its address 12
C13_Witness ==
    /\ littleendian
    /\ status = SYSTEM_RUN
    /\ mem[0] = 127 /\ mem[1] = 69 /\ mem[2] = 76 /\ mem[3] = 70
    /\ mem[4] = 12 /\ mem[5] = 2
    /\ mem[12] = 33 /\ mem[13] = 33

\* ------------------------------------------------------------------ C14
\* the cycles to the next interrupt that the CPU gave when the present
\* idle period was entered: the delta of the wake armed on entry
IdleBudget ==
    (CHOOSE t \in timers : t.id = idletimeouthandle).delta

\* C14: whenever the system leaves IDLE, by a deferred wake that fires or
\* by RaiseInterrupt, cpu.ProgressTime is given at most the cycles to the
\* next interrupt obtained when that idle period was entered.
C14_ProgressWithinBudget ==
    status = SYSTEM_HALT =>
        /\ HandleArmed(idletimeouthandle, timers)
        /\ idlemaxwait = IdleBudget
        /\ \A c \in CpuAnswers :
              /\ \A line \in Lines :
                    LET r == RaiseResult(line, c)
                    IN  /\ r.progressed >= 0
                        /\ r.progressed <= IdleBudget
                        /\ r.progressed =
                              Min(idleElapsed * ticksperms, IdleBudget)
              /\ \A t \in timers :
                    LET r == WakeResult(t, c)
                    IN  r.progressed >= 0 /\ r.progressed <= IdleBudget

\* ------------------------------------------------------------------ C15
\* C15: a quantum schedules exactly one follow-up: one that ends RUNNING
\* queues one 'execute' and arms no wake; one that ends by entering IDLE
\* arms the wake and queues no 'execute'.  (Execute takes the delivered
\* message off the queue; the quanta of RaiseInterrupt and of the timeout
\* take none.)
C15_OneFollowUp ==
    [][/\ (Execute /\ status = SYSTEM_RUN /\ status' = SYSTEM_RUN)
          => (execq' = execq /\ timers' = timers)
       /\ (Execute /\ status = SYSTEM_RUN /\ status' = SYSTEM_HALT)
          => (execq' = execq - 1 /\ Cardinality(timers') = Cardinality(timers) + 1)
       /\ ((Raise \/ TimerFire) /\ status = SYSTEM_HALT /\ status' = SYSTEM_HALT)
          => execq' = execq]_vars

\* ------------------------------------------------------------------ C16
\* w = floor(delta / cyclesPerMillisecond / correction + 0.5), said without
\* the division: w - 1/2 <= delta / ticksperms / correction < w + 1/2
WaitIs(w, delta, correction) ==
    /\ (2 * w - 1) * ticksperms * correction[1] <= 2 * delta * correction[2]
    /\ 2 * delta * correction[2] < (2 * w + 1) * ticksperms * correction[1]

MaxWait == 4

EntersIdle(c) ==
    /\ c.delta # 0 - 1
    /\ \E w \in 2..MaxWait : WaitIs(w, c.delta, c.correction)

\* what C16 says of the quantum that produced r from the pending wakes `ts`
\* with `q` 'execute' messages outstanding
IdleEntry(r, c, ts, q) ==
    /\ (r.status = SYSTEM_HALT) <=> EntersIdle(c)
    /\ r.status = SYSTEM_HALT =>
          /\ WaitIs(r.mswait, c.delta, c.correction)
          /\ r.armed = r.idletimeouthandle
          /\ r.timers = ts \cup {[id |-> r.armed, delta |-> c.delta]}
          /\ r.armed \notin {t.id : t \in ts}
    /\ r.status # SYSTEM_HALT =>
          /\ r.status = SYSTEM_RUN
          /\ r.armed = None
          /\ ~Has(r.trace, "setTimeout")
          /\ r.timers = ts
          /\ r.execq = q + 1

\* C16: a quantum in which the CPU went idle ends IDLE, with a wake armed
\* for waitMs, iff delta # -1 and waitMs = floor(delta / cyclesPerMs /
\* correction + 0.5) > 1; otherwise it ends RUNNING, arms no wake and has
\* queued a further 'execute'.
C16_IdleEntry ==
    /\ status = SYSTEM_RUN =>
          \A c \in CpuAnswers :
              c.stepsleft # 0 => IdleEntry(QuantumResult(c), c, timers, execq)
    /\ status = SYSTEM_HALT =>
          \A line \in Lines, c \in CpuAnswers :
              c.stepsleft # 0 =>
                  IdleEntry(RaiseResult(line, c), c,
                            {t \in timers : t.id # idletimeouthandle}, execq)

\* an idle period entered for 60000 cycles, and one declined (the wait for
\* 30000 cycles at correction 2 is 1 ms) are both reached
C16_Witness ==
    /\ status = SYSTEM_RUN
    /\ timers = {}
    /\ \E c \in CpuAnswers :
          /\ c.delta = 30000 /\ c.correction = <<2, 1>>
          /\ InBounds(QuantumResult(c))
          /\ QuantumResult(c).status = SYSTEM_RUN
    /\ \E c \in CpuAnswers :
          /\ c.delta = 60000
          /\ InBounds(QuantumResult(c))
          /\ QuantumResult(c).status = SYSTEM_HALT

\* ------------------------------------------------------------------ C17
FloorOfOne(n) == IF n < 1 THEN 1 ELSE n

ConsumedIsFloored(r, c) ==
    Has(r.trace, "cpu.Step") =>
        /\ r.consumed = FloorOfOne(c.budget - c.stepsleft)
        /\ r.ips = ips + r.consumed
        /\ c.stepsleft = 0 => r.consumed = c.budget

\* C17: the consumed count of a quantum is max(1, budget - unused) for every
\* unused in 0..budget, it is the budget when unused is 0, and the counter
\* grows by exactly that amount.
C17_ConsumedFloor ==
    /\ \A c \in Answers(status = SYSTEM_RUN) :
          ConsumedIsFloored(QuantumResult(c), c)
    /\ \A c \in Answers(status = SYSTEM_HALT) :
          \A line \in Lines : ConsumedIsFloored(RaiseResult(line, c), c)

\* ------------------------------------------------------------------ C18
LoadResult(buf) == OnKernelLoaded(Begin("LoadAndStart"), buf)

MaterializeSteps == {"elf", "bzip2", "bzip2+elf", "raw"}

\* C18: OnKernelLoaded materializes the image first, on a CPU that is not
\* little-endian patches and then byte-swaps it, all before cpu.Reset and
\* cpu.AnalyzeImage; sets the state RUNNING only after both; asks for
\* exactly one 'execute' after that; and steps the CPU nowhere in between.
C18_CommitOrder ==
    inited =>
        \A buf \in Images :
            LET r == LoadResult(buf)
                tr == r.trace
            IN  /\ Len(tr) > 0 /\ tr[1] \in MaterializeSteps
                /\ \A k \in 2..Len(tr) : tr[k] \notin MaterializeSteps
                /\ (littleendian = FALSE) =>
                      /\ Count(tr, "PatchKernel") = 1
                      /\ Count(tr, "Little2Big") = 1
                      /\ Precedes(tr, "PatchKernel", "Little2Big")
                      /\ Precedes(tr, "Little2Big", "cpu.Reset")
                      /\ Precedes(tr, "Little2Big", "cpu.AnalyzeImage")
                      /\ r.afterPatch = PatchKernel(r.loaded, r.length, memorysize).m
                      /\ r.mem = Little2Big(r.afterPatch, r.length)
                /\ (littleendian = TRUE) =>
                      /\ ~Has(tr, "PatchKernel") /\ ~Has(tr, "Little2Big")
                      /\ r.mem = r.loaded
                /\ Count(tr, "cpu.Reset") = 1
                /\ Count(tr, "cpu.AnalyzeImage") = 1
                /\ First(tr, "cpu.Reset") > 1
                /\ Precedes(tr, "cpu.Reset", "status=RUN")
                /\ Precedes(tr, "cpu.AnalyzeImage", "status=RUN")
                /\ Count(tr, "status=RUN") = 1
                /\ r.status = SYSTEM_RUN
                /\ Precedes(tr, "status=RUN", "Send execute")
                /\ Count(tr, "Send execute") = 1
                /\ r.execq = execq + 1
                /\ ~Has(tr, "cpu.Step")

\* a big-endian boot of a raw image has been committed: the words of
\* RawShort are in memory byte-swapped, the state is RUNNING and one
\* 'execute' is outstanding
C18_Witness ==
    /\ inited
    /\ littleendian = FALSE
    /\ status = SYSTEM_RUN
    /\ execq = 1
    /\ mem[0] = 68 /\ mem[1] = 51 /\ mem[2] = 34 /\ mem[3] = 17

\* ------------------------------------------------------------------ C20
\* C20: there is a single chain of quanta: at most one 'execute' is sent
\* and not yet delivered, at any time.
C20_SingleChain == execq <= 1

\* ------------------------------------------------------------------ C19
\* an idle period that has lasted MaxElapsed ms; a new idle period starts
\* with idleElapsed 0, also when a wake goes idle again at once
LongIdle == status = SYSTEM_HALT /\ idleElapsed = MaxElapsed

\* C19: whenever the state is IDLE the wake the handle names is pending,
\* and no idle period lasts forever: with armed timeouts firing, an idle
\* period that has lasted MaxElapsed ms is left, for RUNNING (wake,
\* RaiseInterrupt, LoadAndStart) or STOPPED (Reset, Init).  The counter of
\* the model must leave room for the quantum of the wake: behaviours in
\* which this.ips stays at MaxIps for ever are not behaviours of the code.
C19_IdleEnds ==
    /\ [](status = SYSTEM_HALT => HandleArmed(idletimeouthandle, timers))
    /\ ([]<>(ips < MaxIps)) => (LongIdle ~> ~LongIdle)

\* a long idle period whose wake is pending and can run its quantum
C19_Witness ==
    /\ LongIdle
    /\ HandleArmed(idletimeouthandle, timers)
    /\ ips < MaxIps
    /\ \E t \in timers, c \in CpuAnswers :
          /\ InBounds(WakeResult(t, c))
          /\ WakeResult(t, c).status = SYSTEM_RUN

\* ------------------------------------------------------------------ C21
\* RUNNING with the counter at k.  A quantum adds at least 1 to this.ips;
\* GetIPS sets it to 0 and changes nothing when it is 0 already.
RunningAt(k) == status = SYSTEM_RUN /\ ips = k

\* C21: between handlers, RUNNING implies that an 'execute' is outstanding;
\* and with every 'execute' delivered a RUNNING system runs another quantum
\* or leaves RUNNING: it does not stay RUNNING with the same count for
\* ever.  (From a count above 0 GetIPS may be what changes it; the count is
\* then 0, and only a quantum changes that.)  The counter of the model
\* must leave room for the quantum: behaviours in which this.ips stays at
\* MaxIps for ever are not behaviours of the code.
C21_NeverStalls ==
    /\ [](status = SYSTEM_RUN => execq >= 1)
    /\ ([]<>(ips < MaxIps)) =>
          \A k \in 0..MaxIps : []<>~RunningAt(k)

\* RUNNING after quanta have run, one 'execute' outstanding, and the CPU
\* may go idle with no timer pending: the quantum then ends RUNNING
C21_Witness ==
    /\ status = SYSTEM_RUN
    /\ execq = 1
    /\ ips > 0
    /\ \E c \in CpuAnswers :
          /\ c.stepsleft # 0 /\ c.delta = 0 - 1
          /\ InBounds(QuantumResult(c))
          /\ QuantumResult(c).status = SYSTEM_RUN
          /\ Has(QuantumResult(c).trace, "Send execute")

====
